---------------------------- MODULE Spec2Model ----------------------------
(***************************************************************************)
(* The two GitHub Actions workflows of the repository:                     *)
(*   .github/workflows/release_notes_updated.yml  ("Release notes updated")*)
(*   unnamed/part_000            ("Unit tests, linux, min dependencies")   *)
(* Text is modelled as sequences of one-character strings, so that the     *)
(* `expr match` regular expressions and the `grep` pattern are matched     *)
(* character by character, as the shell utilities do.                      *)
(***************************************************************************)
EXTENDS Integers, Sequences, FiniteSets, TLC

VARIABLES
    ref,        \* github.event.pull_request.head.ref: the PR's head branch name
    number,     \* github.event.number: the PR's number
    commits,    \* the head branch's history: commits[i] is docs/source/release_notes.rst at commit i
    runs,       \* the runs of the release-notes workflow, one record each
    event,      \* the last event delivered to the repository's workflows
    started,    \* the workflows that event started
    jobs        \* the matrix jobs of the current unit-test workflow run

vars == <<ref, number, commits, runs, event, started, jobs>>

(***************************************************************************)
(* Bounds of the model.                                                    *)
(***************************************************************************)
MaxTail == 1        \* characters appended to a branch-name stem
MaxLines == 2       \* lines of docs/source/release_notes.rst
MaxCommits == 2     \* commits pushed to the PR's head branch

(***************************************************************************)
(* Characters and text.                                                    *)
(***************************************************************************)
DigitChars == <<"0", "1", "2", "3", "4", "5", "6", "7", "8", "9">>

Digit == {DigitChars[i] : i \in 1..Len(DigitChars)}

Lower == {"a", "b", "c", "d", "e", "f", "g", "h", "i", "j", "k", "l", "m",
          "n", "o", "p", "q", "r", "s", "t", "u", "v", "w", "x", "y", "z"}

Upper == {"A", "B", "C", "D", "E", "F", "G", "H", "I", "J", "K", "L", "M",
          "N", "O", "P", "Q", "R", "S", "T", "U", "V", "W", "X", "Y", "Z"}

\* The backquote character (a string cannot hold it in TLA+).
Backquote == "BACKQUOTE"

\* ${{ github.event.number }}: the number written in decimal.
RECURSIVE Decimal(_)
Decimal(n) ==
    IF n < 10 THEN <<DigitChars[n + 1]>>
    ELSE Decimal(n \div 10) \o <<DigitChars[(n % 10) + 1]>>

IsPrefix(p, s) == Len(p) <= Len(s) /\ SubSeq(s, 1, Len(p)) = p

(***************************************************************************)
(* Basic regular expressions, as far as the workflow uses them: a pattern  *)
(* is a sequence of atoms, an atom a set of characters with a repetition   *)
(* (once, one or more, zero or more).  MatchLen is the length of the       *)
(* longest match of pat[j..] anchored at s[i], or -1 when there is none.   *)
(***************************************************************************)
Literal(text) == [k \in 1..Len(text) |-> [chars |-> {text[k]}, rep |-> "1"]]

Max(S) == CHOOSE m \in S : \A x \in S : x <= m

\* The number of leading characters of s[i..] that are in the set chars.
RECURSIVE Run(_, _, _)
Run(s, i, chars) ==
    IF i <= Len(s) /\ s[i] \in chars THEN 1 + Run(s, i + 1, chars) ELSE 0

RECURSIVE MatchLen(_, _, _, _)
MatchLen(s, i, pat, j) ==
    IF j > Len(pat) THEN 0
    ELSE LET atom == pat[j]
             here == i <= Len(s) /\ s[i] \in atom.chars
             most == IF atom.rep = "1" THEN (IF here THEN 1 ELSE 0)
                     ELSE Run(s, i, atom.chars)
             least == IF atom.rep = "*" THEN 0 ELSE 1
             rests == {<<k, MatchLen(s, i + k, pat, j + 1)>> : k \in least..most}
             found == {p \in rests : p[2] >= 0}
         IN  IF found = {} THEN -1 ELSE Max({p[1] + p[2] : p \in found})

\* expr match STRING REGEX: the match is anchored at the first character of
\* STRING; prints the number of characters matched, 0 when there is no match.
ExprMatch(s, pat) ==
    LET n == MatchLen(s, 1, pat, 1) IN IF n < 0 THEN 0 ELSE n

\* GrepLine with the match anchored at the start of the line.
GrepLineAnchored(line, pat) == MatchLen(line, 1, pat, 1) >= 0

\* grep PATTERN: selects the lines that contain a match anywhere.
GrepLine(line, pat) ==
    \E i \in 1..(Len(line) + 1) : MatchLen(line, i, pat, 1) >= 0

\* A path of the checked-out tree: absent, or a file with its lines.
NoFile == [exists |-> FALSE, lines |-> <<>>]

File(lines) == [exists |-> TRUE, lines |-> lines]

\* cat FILE: the file's lines on stdout; nothing, and status 1, when missing.
Cat(file) ==
    IF file.exists THEN [out |-> file.lines, status |-> 0]
    ELSE [out |-> <<>>, status |-> 1]

\* grep's exit status on its stdin: 0 when a line is selected, 1 when none is.
Grep(input, pat) ==
    IF \E k \in 1..Len(input) : GrepLine(input[k], pat) THEN 0 ELSE 1

\* `run:` without `shell:` is bash -e {0}: no pipefail, so the status of a
\* pipeline is the status of its last command.
Pipefail == FALSE

Pipeline(statuses) ==
    IF Pipefail /\ \E k \in 1..Len(statuses) : statuses[k] # 0
    THEN statuses[Max({k \in 1..Len(statuses) : statuses[k] # 0})]
    ELSE statuses[Len(statuses)]

(***************************************************************************)
(* The release-notes workflow, release_notes_updated.yml.                  *)
(***************************************************************************)
ReleaseLit == <<"r", "e", "l", "e", "a", "s", "e", "_", "v">>

LatestLit == <<"l", "a", "t", "e", "s", "t", "-", "d", "e", "p", "-",
               "u", "p", "d", "a", "t", "e", "-">>

MinLit == <<"m", "i", "n", "-", "d", "e", "p", "-",
            "u", "p", "d", "a", "t", "e", "-">>

AlphaNum == Lower \cup Upper \cup Digit

\* Step "Debug PR type": the three regular expressions of its if / elif chain.
DebugReleaseRe == Literal(ReleaseLit) \o <<[chars |-> Digit \cup {"."}, rep |-> "+"]>>

\* DebugLatestRe asking for at least one character after the hyphen.
DebugLatestRePlus == Literal(LatestLit) \o <<[chars |-> AlphaNum, rep |-> "+"]>>

DebugLatestRe == Literal(LatestLit) \o <<[chars |-> AlphaNum, rep |-> "*"]>>

DebugMinRe == Literal(MinLit) \o <<[chars |-> AlphaNum, rep |-> "*"]>>

\* Step "Release notes added": the three regular expressions of its chain.
\* GateReleaseRe with * in place of \+.
GateReleaseReStar == Literal(ReleaseLit) \o <<[chars |-> Digit \cup {"."}, rep |-> "*"]>>

GateReleaseRe == Literal(ReleaseLit) \o <<[chars |-> Digit \cup {"."}, rep |-> "+"]>>

GateLatestRe == Literal(LatestLit) \o <<[chars |-> AlphaNum, rep |-> "*"]>>

GateMinRe == Literal(MinLit) \o <<[chars |-> AlphaNum, rep |-> "*"]>>

\* The script of step "Debug PR type": what it echoes first, and its exit
\* status, which is that of its last command, the echo of the PR number.
DebugScript(r, n) ==
    [echo |-> IF ExprMatch(r, DebugReleaseRe) > 0 THEN "This is a release PR"
              ELSE IF ExprMatch(r, DebugLatestRe) > 0
                   THEN "This is a latest dependency update PR"
              ELSE IF ExprMatch(r, DebugMinRe) > 0
                   THEN "This is a minimum dependency update PR"
              ELSE "This is a regular PR",
     pr |-> Decimal(n),
     exit |-> 0]

\* MarkerRe without the closing backquote.
MarkerReOpen(n) == Literal(<<":", "p", "r", ":", Backquote>> \o Decimal(n))

\* grep's pattern ":pr:\`${{ github.event.number }}\`": inside double quotes
\* \` is a backquote, and none of the characters is special to grep.
MarkerRe(n) == Literal(<<":", "p", "r", ":", Backquote>> \o Decimal(n) \o <<Backquote>>)

\* GateScript without the elif of the minimum-dependency branches.
GateScriptNoMin(r, n, file) ==
    IF ExprMatch(r, GateReleaseRe) > 0 THEN [via |-> "release", read |-> FALSE, exit |-> 0]
    ELSE IF ExprMatch(r, GateLatestRe) > 0 THEN [via |-> "latest", read |-> FALSE, exit |-> 0]
    ELSE LET cat == Cat(file)
         IN  [via |-> "grep", read |-> TRUE,
              exit |-> Pipeline(<<cat.status, Grep(cat.out, MarkerRe(n))>>)]

\* The script of step "Release notes added": branch names the step exits on
\* ("release", "latest", "min"), or the pipeline cat | grep ("grep").
GateScript(r, n, file) ==
    IF ExprMatch(r, GateReleaseRe) > 0 THEN [via |-> "release", read |-> FALSE, exit |-> 0]
    ELSE IF ExprMatch(r, GateLatestRe) > 0 THEN [via |-> "latest", read |-> FALSE, exit |-> 0]
    ELSE IF ExprMatch(r, GateMinRe) > 0 THEN [via |-> "min", read |-> FALSE, exit |-> 0]
    ELSE LET cat == Cat(file)
         IN  [via |-> "grep", read |-> TRUE,
              exit |-> Pipeline(<<cat.status, Grep(cat.out, MarkerRe(n))>>)]

\* An event delivered to the repository, and a workflow's `on:` entries.
PullRequest(type) == [name |-> "pull_request", type |-> type, branch |-> ""]

Push(branch) == [name |-> "push", type |-> "", branch |-> branch]

NoEvent == [name |-> "none", type |-> "", branch |-> ""]

\* on: of release_notes_updated.yml.
ReleaseNotesOn ==
    {[name |-> "pull_request", types |-> {"opened", "synchronize"}, branches |-> {}]}

\* UnitTestsOn without the `types:` filter of pull_request.
UnitTestsOnAllTypes ==
    {[name |-> "pull_request",
      types |-> {"opened", "synchronize", "reopened", "edited", "closed"}, branches |-> {}],
     [name |-> "push", types |-> {}, branches |-> {"main"}]}

\* on: of the unit-test workflow.
UnitTestsOn ==
    {[name |-> "pull_request", types |-> {"opened", "synchronize"}, branches |-> {}],
     [name |-> "push", types |-> {}, branches |-> {"main"}]}

\* Whether an event starts a workflow with these `on:` entries.
Triggers(on, e) ==
    \E t \in on :
        /\ t.name = e.name
        /\ e.name = "pull_request" => e.type \in t.types
        /\ e.name = "push" => e.branch \in t.branches

\* CheckoutRef resolving to the commit of the event that started the run.
CheckoutSha(run, head) == run.sha

\* actions/checkout with `ref: head.ref`: the commit the branch name resolves
\* to when the step runs, which is the branch's head at that moment.
CheckoutRef(run, head) == head

NewRun(sha) ==
    [sha |-> sha, pc |-> "checkout", seen |-> 0, workspace |-> NoFile,
     echo |-> "", via |-> "", read |-> FALSE, exit |-> 0, conclusion |-> ""]

\* Step 1, "Checkout repository".
CheckoutRepository(k) ==
    /\ runs[k].pc = "checkout"
    /\ LET c == CheckoutRef(runs[k], Len(commits))
       IN  runs' = [runs EXCEPT ![k].pc = "debug", ![k].seen = c,
                                ![k].workspace = commits[c]]
    /\ UNCHANGED <<ref, number, commits, event, started, jobs>>

\* Step 2, "Debug PR type"; a step that exits nonzero fails the job.
DebugPRType(k) ==
    /\ runs[k].pc = "debug"
    /\ LET d == DebugScript(ref, number)
       IN  runs' = [runs EXCEPT ![k].echo = d.echo,
                                ![k].pc = IF d.exit = 0 THEN "gate" ELSE "done",
                                ![k].conclusion = IF d.exit = 0 THEN "" ELSE "failure"]
    /\ UNCHANGED <<ref, number, commits, event, started, jobs>>

\* Step 3, "Release notes added": the job's last step.
ReleaseNotesAdded(k) ==
    /\ runs[k].pc = "gate"
    /\ LET g == GateScript(ref, number, runs[k].workspace)
       IN  runs' = [runs EXCEPT ![k].via = g.via, ![k].read = g.read,
                                ![k].exit = g.exit, ![k].pc = "done",
                                ![k].conclusion = IF g.exit = 0 THEN "success"
                                                  ELSE "failure"]
    /\ UNCHANGED <<ref, number, commits, event, started, jobs>>

\* pull_request, type opened: the PR is opened at the branch's head, and the
\* event starts the first run of the workflow.
PullRequestOpened ==
    /\ event = NoEvent
    /\ event' = PullRequest("opened")
    /\ started' = IF Triggers(ReleaseNotesOn, event') THEN {"release_notes_updated"} ELSE {}
    /\ runs' = IF Triggers(ReleaseNotesOn, event')
               THEN Append(runs, NewRun(Len(commits))) ELSE runs
    /\ UNCHANGED <<ref, number, commits, jobs>>

\* pull_request, type synchronize: a commit pushed to the PR's head branch
\* starts another run of the workflow.
Synchronize(file) ==
    /\ event # NoEvent
    /\ Len(commits) < MaxCommits
    /\ commits' = Append(commits, file)
    /\ event' = PullRequest("synchronize")
    /\ started' = IF Triggers(ReleaseNotesOn, event') THEN {"release_notes_updated"} ELSE {}
    /\ runs' = IF Triggers(ReleaseNotesOn, event')
               THEN Append(runs, NewRun(Len(commits) + 1)) ELSE runs
    /\ UNCHANGED <<ref, number, jobs>>

(***************************************************************************)
(* The inputs: branch names, PR numbers, release-notes files.              *)
(***************************************************************************)
Leads == {<<>>, <<"f", "i", "x", "/">>}

Stems == {<<>>, ReleaseLit, SubSeq(ReleaseLit, 1, Len(ReleaseLit) - 1),
          LatestLit, SubSeq(LatestLit, 1, Len(LatestLit) - 1),
          MinLit, SubSeq(MinLit, 1, Len(MinLit) - 1)}

\* "1" is in both bracket expressions, "." in the first only, "a" in the
\* second only, "_" in neither.
TailChars == {"1", ".", "a", "_"}

Tails == UNION {[1..n -> TailChars] : n \in 0..MaxTail}

BranchNames == {l \o s \o t : l \in Leads, s \in Stems, t \in Tails} \ {<<>>}

PRNumbers == {1, 12, 123}

MarkerNumbers == {1, 12, 123, 312}

Mark(m) == <<":", "p", "r", ":", Backquote>> \o Decimal(m) \o <<Backquote>>

\* Lines of the release notes: a marker alone, a marker inside an entry, two
\* markers in one entry, near misses of a marker, text, the empty line.
Lines ==
    {Mark(m) : m \in MarkerNumbers}
    \cup {<<"*", " ">> \o Mark(12) \o <<" ", "x">>}
    \cup {Mark(312) \o <<",">> \o Mark(1)}
    \cup {<<":", "p", "r", ":">> \o Decimal(12)}
    \cup {<<"p", "r", ":", Backquote>> \o Decimal(1) \o <<Backquote>>}
    \cup {<<":", "p", "r", ":", Backquote>> \o Decimal(123)}
    \cup {<<"x">>, <<>>}

Files == {NoFile} \cup {File(ls) : ls \in UNION {[1..n -> Lines] : n \in 0..MaxLines}}

\* One branch name of each class, and four files: missing, empty, with the
\* marker of PR 12, with the marker of PR 123.
CoreBranchNames ==
    {<<"f", "i", "x">>, ReleaseLit \o <<"1">>, LatestLit, MinLit \o <<"a">>}

CoreFiles == {NoFile, File(<<>>), File(<<Mark(12)>>), File(<<Mark(123)>>)}

(***************************************************************************)
(* Spec: one run of the release-notes job.  Every branch name of the       *)
(* bounded set is run against the core files, and every release-notes file *)
(* of the bounded set against the core branch names.                       *)
(***************************************************************************)
Init ==
    /\ \/ ref \in BranchNames /\ \E f \in CoreFiles : commits = <<f>>
       \/ ref \in CoreBranchNames /\ \E f \in Files : commits = <<f>>
    /\ number \in PRNumbers
    /\ runs = <<>>
    /\ event = NoEvent
    /\ started = {}
    /\ jobs = <<>>

Next ==
    \/ PullRequestOpened
    \/ \E k \in 1..Len(runs) :
        \/ CheckoutRepository(k)
        \/ DebugPRType(k)
        \/ ReleaseNotesAdded(k)

Spec == Init /\ [][Next]_vars

(***************************************************************************)
(* SpecRace: commits pushed to the head branch while runs of the           *)
(* release-notes workflow are under way.                                   *)
(***************************************************************************)
RaceBranchNames == {<<"f", "i", "x">>, ReleaseLit \o <<"1">>}

RaceInit ==
    /\ ref \in RaceBranchNames
    /\ number \in PRNumbers
    /\ \E f \in CoreFiles : commits = <<f>>
    /\ runs = <<>>
    /\ event = NoEvent
    /\ started = {}
    /\ jobs = <<>>

RaceNext ==
    \/ PullRequestOpened
    \/ \E f \in CoreFiles : Synchronize(f)
    \/ \E k \in 1..Len(runs) :
        \/ CheckoutRepository(k)
        \/ DebugPRType(k)
        \/ ReleaseNotesAdded(k)

SpecRace == RaceInit /\ [][RaceNext]_vars

(***************************************************************************)
(* The unit-test workflow, "Unit tests, linux, min dependencies".          *)
(***************************************************************************)
\* fail-fast left at its default.
fail_fast_default == TRUE

\* command with git-test-other twice and git-test-dask missing.
command_twice == <<"git-test-automl", "git-test-modelunderstanding", "git-test-other",
                   "git-test-other">>

\* strategy: fail-fast and the two axes of the matrix.
fail_fast == FALSE

python_version == <<"3.7">>

command == <<"git-test-automl", "git-test-modelunderstanding", "git-test-other",
             "git-test-dask">>

\* One job per combination of one entry of each axis.
MatrixJobs == {<<i, j>> : i \in 1..Len(python_version), j \in 1..Len(command)}

MatrixOf(id) == [python_version |-> python_version[id[1]], command |-> command[id[2]]]

\* No step has `continue-on-error`, none has an `if:`, so a step runs only
\* while every step before it has succeeded.
ContinueOnError == FALSE

\* bash without -e.
ErrexitOff == FALSE

\* `run:` without `shell:` is bash -e {0}.
Errexit == TRUE

\* steps: of job unit_tests.  A script is a sequence of lines, a line a
\* sequence of commands joined by &&, a command its words; a `uses:` step is
\* one command, the action.
Steps(m) ==
    <<[name |-> "Set up Python",
       script |-> <<<< <<"actions/setup-python@v2", m.python_version>> >>>>],
      [name |-> "Checkout repository",
       script |-> <<<< <<"actions/checkout@v2">> >>>>],
      [name |-> "Update apt and install Graphviz",
       script |-> <<<< <<"sudo", "apt", "update">>,
                       <<"sudo", "apt", "install", "-y", "graphviz">> >>>>],
      [name |-> "Create virtual environment, upgrade pip",
       script |-> << << <<"pip", "install", "virtualenv">> >>,
                     << <<"virtualenv", "test_python", "-q">> >>,
                     << <<"source", "test_python/bin/activate">> >>,
                     << <<"python", "-m", "pip", "install", "--upgrade", "pip", "-q">> >> >>],
      [name |-> "install evalml with test dependencies, core dependencies, & optional requirements",
       script |-> << << <<"source", "test_python/bin/activate">> >>,
                     << <<"pip", "install", "-e", ".", "--no-dependencies">> >>,
                     << <<"pip", "install", "-r", "minimum_test_requirements.txt">> >>,
                     << <<"pip", "install", "-r", "minimum_core_requirements.txt">> >>,
                     << <<"pip", "install", "-r", "minimum_requirements.txt">> >> >>],
      [name |-> "run tests",
       script |-> << << <<"source", "test_python/bin/activate">> >>,
                     << <<"make", m.command>> >> >>]>>

RECURSIVE CountCommands(_, _)
CountCommands(script, l) ==
    IF l > Len(script) THEN 0 ELSE Len(script[l]) + CountCommands(script, l + 1)

\* A list c1 && c2 && ...: the commands run until one fails.  st[base + k] is
\* the exit status the k-th command of the list would have.
RECURSIVE AndList(_, _, _, _)
AndList(list, k, st, base) ==
    LET this == [argv |-> list[k], status |-> st[base + k]]
    IN  IF k = Len(list) \/ this.status # 0 THEN <<this>>
        ELSE <<this>> \o AndList(list, k + 1, st, base)

\* bash [-e] on a script, from line l on: the commands executed, and the
\* exit status.  With -e the shell exits on a failing list, unless the
\* command that failed is one before the last && of the list; otherwise it
\* goes on, and its status is that of the last command executed.
RECURSIVE Bash(_, _, _, _)
Bash(script, l, st, base) ==
    LET list == script[l]
        ran == AndList(list, 1, st, base)
        status == ran[Len(ran)].status
        exits == Errexit /\ status # 0 /\ Len(ran) = Len(list)
    IN  IF l = Len(script) \/ exits THEN [ran |-> ran, exit |-> status]
        ELSE LET rest == Bash(script, l + 1, st, base + Len(list))
             IN  [ran |-> ran \o rest.ran, exit |-> rest.exit]

NewJob(id) ==
    [matrix |-> MatrixOf(id), pc |-> 1, status |-> "in_progress", log |-> <<>>,
     cmdFailed |-> FALSE, made |-> <<>>]

\* The `make` targets among the commands a step executed.
MakeTargets(ran) ==
    SelectSeq([k \in 1..Len(ran) |-> IF ran[k].argv[1] = "make" THEN ran[k].argv[2] ELSE ""],
              LAMBDA t : t # "")

\* For each job and step, what the step's script can do: its result under
\* every assignment of exit statuses to its commands.
StepOutcomes ==
    [id \in MatrixJobs |->
        [pc \in 1..Len(Steps(MatrixOf(id))) |->
            LET script == Steps(MatrixOf(id))[pc].script
            IN  {Bash(script, 1, st, 0) : st \in [1..CountCommands(script, 1) -> {0, 1}]}]]

\* A job runs its next step, with result r.  A failed step fails the job and
\* the steps after it are skipped; with fail-fast a failed job cancels the
\* matrix's jobs that are still in progress.
RunStep(id, r) ==
    LET job == jobs[id]
        ok == r.exit = 0 \/ ContinueOnError
        last == job.pc = Len(Steps(job.matrix))
        after == [job EXCEPT
                    !.pc = IF ok THEN job.pc + 1 ELSE job.pc,
                    !.log = Append(job.log, [step |-> job.pc, exit |-> r.exit]),
                    !.cmdFailed = job.cmdFailed \/ \E k \in 1..Len(r.ran) : r.ran[k].status # 0,
                    !.made = job.made \o MakeTargets(r.ran),
                    !.status = IF ~ok THEN "failure"
                               ELSE IF last THEN "success" ELSE "in_progress"]
    IN  jobs' = [j \in DOMAIN jobs |->
                    IF j = id THEN after
                    ELSE IF fail_fast /\ after.status = "failure"
                            /\ jobs[j].status = "in_progress"
                         THEN [jobs[j] EXCEPT !.status = "cancelled"]
                         ELSE jobs[j]]

unit_tests(id) ==
    /\ id \in DOMAIN jobs
    /\ jobs[id].status = "in_progress"
    /\ \E r \in StepOutcomes[id][jobs[id].pc] : RunStep(id, r)
    /\ UNCHANGED <<ref, number, commits, runs, event, started>>

PullRequestTypes == {"opened", "synchronize", "reopened", "edited", "closed"}

PushBranches == {"main", "dev"}

Events == {PullRequest(t) : t \in PullRequestTypes} \cup {Push(b) : b \in PushBranches}

\* An event arrives and starts the workflows whose `on:` it matches; the
\* unit-test workflow's run creates the jobs of its matrix.
Deliver(e) ==
    /\ \A id \in DOMAIN jobs : jobs[id].status # "in_progress"
    /\ event' = e
    /\ started' = {w \in {"unit_tests", "release_notes_updated"} :
                     Triggers(IF w = "unit_tests" THEN UnitTestsOn ELSE ReleaseNotesOn, e)}
    /\ jobs' = IF Triggers(UnitTestsOn, e) THEN [id \in MatrixJobs |-> NewJob(id)] ELSE <<>>
    /\ UNCHANGED <<ref, number, commits, runs>>

CIInit ==
    /\ ref = <<"f", "i", "x">>
    /\ number = 1
    /\ commits = <<NoFile>>
    /\ runs = <<>>
    /\ event = NoEvent
    /\ started = {}
    /\ jobs = <<>>

CINext ==
    \/ \E e \in Events : Deliver(e)
    \/ \E id \in DOMAIN jobs : unit_tests(id)

SpecCI == CIInit /\ [][CINext]_vars

\* The runs of the unit-test workflow that pushes to main start, where every
\* job of the matrix is given a runner: a job that can take a step does
\* take it.
FairCINext ==
    \/ Deliver(Push("main"))
    \/ \E id \in DOMAIN jobs : unit_tests(id)

FairSpecCI ==
    CIInit /\ [][FairCINext]_vars /\ \A id \in MatrixJobs : WF_vars(unit_tests(id))

(***************************************************************************)
(* What the claims speak of, stated on the text itself.                    *)
(***************************************************************************)
\* The branch name begins with release_v and one of [0-9.], or with
\* latest-dep-update-, or with min-dep-update-.
BeginsRelease(r) ==
    /\ IsPrefix(ReleaseLit, r)
    /\ Len(r) > Len(ReleaseLit)
    /\ r[Len(ReleaseLit) + 1] \in Digit \cup {"."}

BeginsLatest(r) == IsPrefix(LatestLit, r)

BeginsMin(r) == IsPrefix(MinLit, r)

BeginsExempt(r) == BeginsRelease(r) \/ BeginsLatest(r) \/ BeginsMin(r)

\* The text occurs in the line at position i.
OccursAt(line, i, text) ==
    /\ i + Len(text) - 1 <= Len(line)
    /\ SubSeq(line, i, i + Len(text) - 1) = text

\* The file exists and one of its lines contains the text :pr:`n`.
ContainsMarker(file, n) ==
    /\ file.exists
    /\ \E k \in 1..Len(file.lines) : \E i \in 1..Len(file.lines[k]) :
           OccursAt(file.lines[k], i, Mark(n))

\* The digit strings d of the markers :pr:`d` of a line: after each :pr:` the
\* digits up to the first character that is none, if that is a backquote.
MarkersOfLine(line) ==
    LET open == <<":", "p", "r", ":", Backquote>>
        at == {i \in 1..Len(line) : OccursAt(line, i, open)}
        len(i) == Run(line, i + Len(open), Digit)
        closed(i) == /\ len(i) > 0
                     /\ i + Len(open) + len(i) <= Len(line)
                     /\ line[i + Len(open) + len(i)] = Backquote
    IN  {SubSeq(line, i + Len(open), i + Len(open) + len(i) - 1) : i \in {j \in at : closed(j)}}

MarkersOf(file) == UNION {MarkersOfLine(file.lines[k]) : k \in 1..Len(file.lines)}

Done(k) == runs[k].pc = "done"

(***************************************************************************)
(* C1: for a PR whose head branch matches none of the three exemption      *)
(* patterns, "Release notes added" exits zero if and only if the checked   *)
(* out docs/source/release_notes.rst has a line containing :pr:`N`, N the  *)
(* PR's number; without it (an empty or missing file too) the step exits   *)
(* nonzero and the check fails.                                            *)
(***************************************************************************)
C1_MarkerDecides ==
    \A k \in 1..Len(runs) :
        Done(k) /\ ~BeginsExempt(ref) =>
            /\ runs[k].exit = 0 <=> ContainsMarker(runs[k].workspace, number)
            /\ runs[k].conclusion = (IF runs[k].exit = 0 THEN "success" ELSE "failure")
            /\ runs[k].read

C1_Witness ==
    \E k \in 1..Len(runs) :
        /\ Done(k) /\ ~BeginsExempt(ref)
        /\ ~runs[k].workspace.exists
        /\ runs[k].exit # 0 /\ runs[k].conclusion = "failure"

(***************************************************************************)
(* C2: for a PR whose head branch is in one of the three exempted classes, *)
(* "Release notes added" exits 0 before the release-notes file is read:    *)
(* the check passes whatever the file holds, also without a marker for the *)
(* PR's number and when the file is missing.                               *)
(***************************************************************************)
C2_ExemptPasses ==
    \A k \in 1..Len(runs) :
        Done(k) /\ BeginsExempt(ref) =>
            /\ runs[k].exit = 0
            /\ runs[k].conclusion = "success"
            /\ ~runs[k].read

C2_Witness ==
    \E k \in 1..Len(runs) :
        /\ Done(k) /\ BeginsExempt(ref)
        /\ ~ContainsMarker(runs[k].workspace, number)
        /\ runs[k].conclusion = "success"

(***************************************************************************)
(* C3: the marker must carry the exact PR number: for a non-exempt PR N, a *)
(* file whose markers are all :pr:`M` with M # N never passes, also when   *)
(* the digits of N are a prefix, suffix or infix of those of M, and a      *)
(* marker for N passes whatever other markers the file holds.              *)
(***************************************************************************)
C3_ExactNumber ==
    \A k \in 1..Len(runs) :
        Done(k) /\ ~BeginsExempt(ref) =>
            (runs[k].conclusion = "success" <=> Decimal(number) \in MarkersOf(runs[k].workspace))

\* PR 12 against a file whose markers are those of 123, 312 and 1.
C3_Witness ==
    \E k \in 1..Len(runs) :
        /\ Done(k) /\ ~BeginsExempt(ref)
        /\ number = 12
        /\ MarkersOf(runs[k].workspace) = {Decimal(123), Decimal(312), Decimal(1)}
        /\ runs[k].conclusion = "failure"

C9_VerdictOfHeadAtCheckout ==
    /\ [][\A k \in 1..Len(runs) :
            runs[k].pc = "checkout" /\ runs'[k].pc # "checkout" =>
                /\ runs'[k].seen = Len(commits)
                /\ runs'[k].workspace = commits[Len(commits)]]_vars
    /\ [](\A k \in 1..Len(runs) :
            Done(k) =>
                /\ runs[k].workspace = commits[runs[k].seen]
                /\ runs[k].conclusion = "success" <=>
                      BeginsExempt(ref) \/ ContainsMarker(commits[runs[k].seen], number)
                /\ \A l \in 1..Len(runs) :
                      Done(l) /\ runs[l].seen = runs[k].seen =>
                          runs[l].conclusion = runs[k].conclusion)

\* The run started for commit 1 fails on commit 2's file, though commit 1's
\* file has the marker.
C9_Witness ==
    \E k \in 1..Len(runs) :
        /\ Done(k) /\ ~BeginsExempt(ref)
        /\ runs[k].sha = 1 /\ runs[k].seen = 2
        /\ ContainsMarker(commits[1], number)
        /\ ~ContainsMarker(commits[2], number)
        /\ runs[k].conclusion = "failure"

(***************************************************************************)
(* C4: every event that starts the unit-test workflow creates exactly four *)
(* matrix jobs, one per pair of python_version 3.7 and a command of        *)
(* git-test-automl, git-test-modelunderstanding, git-test-other and        *)
(* git-test-dask, none missing or twice, and a job's `make` is invoked     *)
(* with exactly its command as target.                                     *)
(***************************************************************************)
C4_FourJobs ==
    event \in {PullRequest("opened"), PullRequest("synchronize"), Push("main")} =>
        /\ Cardinality(DOMAIN jobs) = 4
        /\ {jobs[id].matrix : id \in DOMAIN jobs} =
              {[python_version |-> "3.7", command |-> c] :
                  c \in {"git-test-automl", "git-test-modelunderstanding",
                         "git-test-other", "git-test-dask"}}
        /\ \A a, b \in DOMAIN jobs : a # b => jobs[a].matrix # jobs[b].matrix
        /\ \A id \in DOMAIN jobs :
              jobs[id].made \in {<<>>, <<jobs[id].matrix.command>>}

C4_Witness ==
    /\ event = Push("main")
    /\ Cardinality(DOMAIN jobs) = 4
    /\ \A id \in DOMAIN jobs : jobs[id].made = <<jobs[id].matrix.command>>

(***************************************************************************)
(* C5: within a job the steps run in the declared order; a nonzero exit of *)
(* any command of any step fails the job, no failed step is run again and  *)
(* the steps after it are not run, so `make <command>` runs only after     *)
(* every step before it succeeded, and a failing make fails the job.       *)
(***************************************************************************)
C5_StepsInOrder ==
    \A id \in DOMAIN jobs :
        LET job == jobs[id] IN
        /\ \A i \in 1..Len(job.log) : job.log[i].step = i
        /\ \A i \in 1..(Len(job.log) - 1) : job.log[i].exit = 0
        /\ job.cmdFailed => job.status = "failure"
        /\ job.status = "failure" => job.log[Len(job.log)].exit # 0
        /\ job.status = "success" =>
              Len(job.log) = 6 /\ \A i \in 1..Len(job.log) : job.log[i].exit = 0
        /\ job.made # <<>> =>
              /\ Len(job.log) = 6
              /\ job.made = <<job.matrix.command>>
              /\ job.log[6].exit # 0 => job.status = "failure"

\* A job that failed in its fourth step, and one whose make failed.
C5_Witness ==
    \E a, b \in DOMAIN jobs :
        /\ jobs[a].status = "failure" /\ Len(jobs[a].log) = 4 /\ jobs[a].made = <<>>
        /\ jobs[b].status = "failure" /\ Len(jobs[b].log) = 6 /\ jobs[b].made # <<>>

(***************************************************************************)
(* C6: the four jobs of a run are independent: a step of one job changes   *)
(* no other job, no job is cancelled because another failed, a job fails   *)
(* exactly when one of its own commands failed, and every job that is in   *)
(* progress reaches its own success or failure.                            *)
(***************************************************************************)
C6_IndependentJobs ==
    /\ [](\A id \in DOMAIN jobs :
            /\ jobs[id].status # "cancelled"
            /\ jobs[id].status = "failure" <=> jobs[id].cmdFailed)
    /\ [][(\E id \in DOMAIN jobs : jobs[id].status = "in_progress") =>
            /\ DOMAIN jobs' = DOMAIN jobs
            /\ Cardinality({id \in DOMAIN jobs : jobs'[id] # jobs[id]}) <= 1]_vars
    /\ \A id \in MatrixJobs :
            (id \in DOMAIN jobs /\ jobs[id].status = "in_progress")
                ~> (id \in DOMAIN jobs /\ jobs[id].status \in {"success", "failure"})

\* One job has failed while the three others went on to succeed.
C6_Witness ==
    /\ Cardinality(DOMAIN jobs) = 4
    /\ \E a \in DOMAIN jobs :
          /\ jobs[a].status = "failure" /\ Len(jobs[a].log) = 1
          /\ \A b \in DOMAIN jobs \ {a} : jobs[b].status = "success"

(***************************************************************************)
(* C7, as amended: the unit-test workflow is started by pull_request       *)
(* opened, by pull_request synchronize and by a push to main, and by no    *)
(* other event; the release-notes workflow is started by pull_request      *)
(* opened and synchronize only, and not by a push to main.                 *)
(***************************************************************************)
C7_Triggers ==
    event # NoEvent =>
        /\ "unit_tests" \in started <=>
              event \in {PullRequest("opened"), PullRequest("synchronize"), Push("main")}
        /\ "release_notes_updated" \in started <=>
              event \in {PullRequest("opened"), PullRequest("synchronize")}

C7_Witness ==
    /\ event = Push("main")
    /\ started = {"unit_tests"}

\* C7 as stated: each of the two workflows is started by exactly those three
\* events.
C7_AsStated ==
    event # NoEvent =>
        \A w \in {"unit_tests", "release_notes_updated"} :
            w \in started <=>
                event \in {PullRequest("opened"), PullRequest("synchronize"), Push("main")}

==========================================================================
